---- MODULE Spec2Model ----
(***************************************************************************)
(* Dataset_Creator: the timeline merger of Make_Dataset.py (create_dataset *)
(* and add_buffering) and the validator of dataset_checker.py              *)
(* (check_dataset), as a state machine over the count table, the log       *)
(* files, the in-memory data frames and the files dataset.csv and          *)
(* dataset.csv.bak.                                                        *)
(***************************************************************************)
EXTENDS Integers, Sequences, FiniteSets, TLC

VARIABLES
    pc,           \* position of the running program
    counts,       \* the count table: sequence of [filename, framecount]
    logs,         \* the log files, in --files order: each a sequence of frame_name strings
    args,         \* fps, starting_frame, end_frame_buffer, frame_interval
    dset,         \* Make_Dataset's data frame (create_dataset / add_buffering result)
    file,         \* the file at the dataset path
    bak,          \* the file at <path>.bak
    dataset,      \* check_dataset's in-memory data frame
    faulty_rows,  \* check_dataset's list of faulty row indices
    run,          \* which run of check_dataset on this path is current
    pre,          \* history: the files as they were when the current run started
    ended,        \* history: the file at the dataset path at the end of each completed run
    sorted,       \* history: create_dataset's frame as sort_values left it (line 127)
    video_files   \* Make_Dataset's list of the video files of --in-path, in listdir order

vars == <<pc, counts, logs, args, dset, file, bak, dataset, faulty_rows, run, pre, ended,
          sorted, video_files>>

(***************************************************************************)
(* Bounds of the model.                                                    *)
(***************************************************************************)
MaxRows == 2      \* rows of a table handed to the stand-alone validator
MaxRuns == 2      \* consecutive validator runs on one path
MaxVideos == 2    \* videos in the count table of a merge
MaxEvents == 2    \* class events over all log files of a merge

(***************************************************************************)
(* Values.                                                                 *)
(***************************************************************************)
NaN == -999999            \* np.nan / an empty CSV field, in a numeric column
NoName == "NaN"           \* np.nan in the filename column
DaySeconds == 86400       \* Timedelta.seconds is the seconds component, 0..86399

F1 == "2024-01-01 00:00:00.0.h264"
F2 == "2024-01-01 00:00:02.5.h264"
F3 == "2024-01-02 00:00:01.0.mp4"
Filenames == {F1, F2, F3}

E0 == "20240101_000000"
E3 == "20240101_000003"
E9 == "20240102_000003"
FrameNames == {E0, E3, E9}

NumCols == {"class", "beginframe", "endframe"}

IsNull(v) == v = NaN

(***************************************************************************)
(* Files and data frames.  A CSV file is its rows plus, per numeric        *)
(* column, whether the column is written in float notation ("5.0"): pandas *)
(* reads a column that holds an empty field or a float literal as float64  *)
(* and writes it back in float notation.                                   *)
(***************************************************************************)
Absent == [exists |-> FALSE, rows |-> <<>>, floats |-> {}]

CsvFile(rows, floats) == [exists |-> TRUE, rows |-> rows, floats |-> floats]

NullCols(rows) ==
    {c \in NumCols : \E i \in 1..Len(rows) : IsNull(rows[i][c])}

\* pd.read_csv(path)
read_csv(f) == [rows |-> f.rows, floats |-> f.floats \cup NullCols(f.rows)]

\* DataFrame.to_csv(path, index=False)
to_csv(df) == CsvFile(df.rows, df.floats)

(***************************************************************************)
(* dataset_checker.check_dataset                                           *)
(***************************************************************************)
\* counts[dataset.iloc[i, 0] == counts["filename"]]["framecount"].values
framecount_values(cnt, fn) ==
    LET hits == SelectSeq(cnt, LAMBDA r : r.filename = fn)
    IN  [k \in 1..Len(hits) |-> hits[k].framecount]

\* .values[0]; on an empty array the subscript raises, which RowRaises reports
FirstValue(vals) == IF vals = <<>> THEN NaN ELSE vals[1]

RowRaisesNoLookup(row, cnt) == IsNull(row.endframe)

\* The condition of line 56 raises: int(nan) is a ValueError, and .values[0]
\* of an empty selection is an IndexError.
RowRaises(row, cnt) ==
    \/ IsNull(row.endframe)
    \/ framecount_values(cnt, row.filename) = <<>>

\* lines 56-63: an end frame past the video's frame count is set to the count
ClampEnd(row, cnt) ==
    LET total == FirstValue(framecount_values(cnt, row.filename))
    IN  IF row.endframe > total THEN [row EXCEPT !.endframe = total] ELSE row

RowHasNull(row) ==
    \/ row.filename = NoName
    \/ IsNull(row["class"])
    \/ IsNull(row.beginframe)
    \/ IsNull(row.endframe)

\* lines 65-82: the null check, then the order check, then the sign check
IsFaulty(row) ==
    IF RowHasNull(row) THEN TRUE
    ELSE IF row.beginframe >= row.endframe THEN TRUE
    ELSE row.beginframe < 0 \/ row.endframe < 0

\* lines 55-82: the loop over the rows, from row i on (1-based here).  The
\* result is the data frame's rows, the faulty indices and whether a row raised.
RECURSIVE CheckLoop(_, _, _, _)
CheckLoop(rows, cnt, i, faulty) ==
    IF i > Len(rows) THEN [rows |-> rows, faulty |-> faulty, raised |-> FALSE]
    ELSE IF RowRaises(rows[i], cnt)
         THEN [rows |-> rows, faulty |-> faulty, raised |-> TRUE]
         ELSE LET row == ClampEnd(rows[i], cnt)
              IN  CheckLoop([rows EXCEPT ![i] = row], cnt, i + 1,
                            IF IsFaulty(row) THEN Append(faulty, i) ELSE faulty)

InList(x, list) == \E k \in 1..Len(list) : list[k] = x

RECURSIVE DropFrom(_, _, _)
DropFrom(rows, faulty, i) ==
    IF i > Len(rows) THEN <<>>
    ELSE IF InList(i, faulty) THEN DropFrom(rows, faulty, i + 1)
         ELSE <<rows[i]>> \o DropFrom(rows, faulty, i + 1)

DropFirstFaultyOnly(rows, faulty) ==
    IF faulty = <<>> THEN rows ELSE DropFrom(rows, <<faulty[1]>>, 1)

\* lines 91-93: dataset.drop(index=faulty_rows) and reset_index
DropRows(rows, faulty) == DropFrom(rows, faulty, 1)

\* line 85: with no faulty row the function returns before any write
ReturnsEarly(faulty) == Len(faulty) = 0

BackupRewritten(f, df) == to_csv(df)

BackupLost(f, df) == Absent

\* line 95: mv path path.bak -- the backup is the old file itself
BackupContent(f, df) == f

\* line 52 and lines 55-93
CheckScan ==
    /\ pc = "check"
    /\ LET df == read_csv(file)
           res == CheckLoop(df.rows, counts, 1, <<>>)
       IN  IF res.raised
           THEN /\ pc' = "error"
                /\ dataset' = [df EXCEPT !.rows = res.rows]
                /\ faulty_rows' = res.faulty
                /\ UNCHANGED ended
           ELSE IF ReturnsEarly(res.faulty)
           THEN /\ pc' = "done"
                /\ dataset' = [df EXCEPT !.rows = res.rows]
                /\ faulty_rows' = res.faulty
                /\ ended' = Append(ended, file)
           ELSE /\ pc' = "cleaned"
                /\ dataset' = [df EXCEPT !.rows = DropRows(res.rows, res.faulty)]
                /\ faulty_rows' = res.faulty
                /\ UNCHANGED ended
    /\ UNCHANGED <<counts, logs, args, dset, file, bak, run, pre, sorted, video_files>>

\* line 95: subprocess.run("mv path path.bak")
CheckBackup ==
    /\ pc = "cleaned"
    /\ bak' = BackupContent(file, dataset)
    /\ file' = Absent
    /\ pc' = "moved"
    /\ UNCHANGED <<counts, logs, args, dset, dataset, faulty_rows, run, pre, ended, sorted, video_files>>

\* line 97: dataset.to_csv(path, index=False)
CheckSave ==
    /\ pc = "moved"
    /\ file' = to_csv(dataset)
    /\ ended' = Append(ended, file')
    /\ pc' = "done"
    /\ UNCHANGED <<counts, logs, args, dset, bak, dataset, faulty_rows, run, pre, sorted, video_files>>

\* dataset_checker.py is run again over the same directory
CheckAgain ==
    /\ pc = "done"
    /\ run < MaxRuns
    /\ run' = run + 1
    /\ pre' = [file |-> file, bak |-> bak]
    /\ dataset' = [rows |-> <<>>, floats |-> {}]
    /\ faulty_rows' = <<>>
    /\ pc' = "check"
    /\ UNCHANGED <<counts, logs, args, dset, file, bak, ended, sorted, video_files>>

(***************************************************************************)
(* The stand-alone validator: dataset_checker.py over any dataset file.    *)
(***************************************************************************)
CountsOfCheck == <<[filename |-> F1, framecount |-> 10]>>

Row(fn, cl, b, e) == [filename |-> fn, class |-> cl, beginframe |-> b, endframe |-> e]

\* Rows of a stored table: sound and unsound frames for a counted video, rows
\* with an empty class, and rows that name a video the count table lacks.
RowSpace ==
    {Row(F1, 0, b, e) : b \in {NaN, -1, 0, 5}, e \in {NaN, 3, 12}}
    \cup {Row(F1, NaN, 0, 3), Row(F1, NaN, 5, 12)}
    \cup {Row(F2, 1, 0, 3), Row(F2, 1, 0, NaN)}

Tables == UNION {[1..n -> RowSpace] : n \in 0..MaxRows}

OldBackup == CsvFile(<<Row(F1, 1, 1, 2)>>, {})

NoArgs == [fps |-> <<1, 1>>, starting_frame |-> 0, end_frame_buffer |-> 0,
           frame_interval |-> 0]

InitCheck ==
    /\ pc = "check"
    /\ counts = CountsOfCheck
    /\ logs = <<>>
    /\ args = NoArgs
    /\ dset = <<>>
    /\ \E t \in Tables : file = CsvFile(t, {})
    /\ bak \in {Absent, OldBackup}
    /\ dataset = [rows |-> <<>>, floats |-> {}]
    /\ faulty_rows = <<>>
    /\ run = 1
    /\ pre = [file |-> file, bak |-> bak]
    /\ ended = <<>>
    /\ sorted = <<>>
    /\ video_files = <<>>

NextCheck == CheckScan \/ CheckBackup \/ CheckSave \/ CheckAgain

SpecCheck == InitCheck /\ [][NextCheck]_vars

(***************************************************************************)
(* The validator's run with its writes in steps and the process open to    *)
(* being killed: to_csv truncates the file and writes it row by row.       *)
(***************************************************************************)
\* line 97, under way: the file holds the first n rows of the cleaned frame
PartialCsv(df, n) == CsvFile(SubSeq(df.rows, 1, n), df.floats)

\* line 97: to_csv has opened the file and written part of it
CheckSaveBegin ==
    /\ pc = "moved"
    /\ \E n \in 0..Len(dataset.rows) : file' = PartialCsv(dataset, n)
    /\ pc' = "saving"
    /\ UNCHANGED <<counts, logs, args, dset, bak, dataset, faulty_rows, run, pre, ended,
                   sorted, video_files>>

\* line 97: to_csv has written the last row and closed the file
CheckSaveEnd ==
    /\ pc = "saving"
    /\ file' = to_csv(dataset)
    /\ ended' = Append(ended, file')
    /\ pc' = "done"
    /\ UNCHANGED <<counts, logs, args, dset, bak, dataset, faulty_rows, run, pre,
                   sorted, video_files>>

\* the process is killed between or during the steps of check_dataset
Interrupt ==
    /\ pc \in {"check", "cleaned", "moved", "saving"}
    /\ pc' = "killed"
    /\ UNCHANGED <<counts, logs, args, dset, file, bak, dataset, faulty_rows, run, pre,
                   ended, sorted, video_files>>

NextCrash ==
    \/ CheckScan
    \/ CheckBackup
    \/ CheckSaveBegin
    \/ CheckSaveEnd
    \/ CheckAgain
    \/ Interrupt

SpecCrash == InitCheck /\ [][NextCrash]_vars

(***************************************************************************)
(* Make_Dataset: timestamps.  A timestamp is whole seconds since           *)
(* 2024-01-01 00:00:00 plus microseconds.                                  *)
(***************************************************************************)
\* process_frame_count: the video suffix is stripped and the rest parsed
\* with "%Y-%m-%d %H:%M:%S.%f"
VideoTime(fn) ==
    CASE fn = F1 -> [s |-> 0, us |-> 0]
      [] fn = F2 -> [s |-> 2, us |-> 500000]
      [] fn = F3 -> [s |-> 86401, us |-> 0]

\* process_log_files: frame_name parsed with "%Y%m%d_%H%M%S"
LogTime(name) ==
    CASE name = E0 -> [s |-> 0, us |-> 0]
      [] name = E3 -> [s |-> 3, us |-> 0]
      [] name = E9 -> [s |-> 86403, us |-> 0]

TimeLess(a, b) == a.s < b.s \/ (a.s = b.s /\ a.us < b.us)

TotalSeconds(a, b) == (b.s - a.s) - (IF b.us < a.us THEN 1 ELSE 0)

\* (b - a).seconds of a pandas Timedelta: the seconds component of the
\* normalised (days, seconds, microseconds), so whole days and the
\* fraction of a second are left out
TimedeltaSeconds(a, b) == TotalSeconds(a, b) % DaySeconds

\* round(x) of Python on the float num/den: to the nearest integer, a tie to
\* the even one
Round(num, den) ==
    LET q == num \div den
        r == num % den
    IN  IF 2 * r < den THEN q
        ELSE IF 2 * r > den THEN q + 1
        ELSE IF q % 2 = 0 THEN q ELSE q + 1

\* round((t_next - t).seconds * FPS), FPS = fps[1] / fps[2]
ElapsedFrames(a, b, fps) == Round(TimedeltaSeconds(a, b) * fps[1], fps[2])

(***************************************************************************)
(* process_frame_count and process_log_files                               *)
(***************************************************************************)
process_frame_count(cnt) ==
    [k \in 1..Len(cnt) |->
        [time |-> VideoTime(cnt[k].filename), filename |-> cnt[k].filename,
         class |-> NaN, beginframe |-> 0, endframe |-> NaN]]

process_log_files(log, classNum) ==
    [k \in 1..Len(log) |->
        [time |-> LogTime(log[k]), filename |-> NoName,
         class |-> classNum, beginframe |-> NaN, endframe |-> NaN]]

\* lines 358-378: the k-th log file of --files gets class number k - 1
RECURSIVE list_of_logs(_, _)
list_of_logs(lg, k) ==
    IF k > Len(lg) THEN <<>>
    ELSE process_log_files(lg[k], k - 1) \o list_of_logs(lg, k + 1)

(***************************************************************************)
(* create_dataset                                                          *)
(***************************************************************************)
RemoveAt(seq, i) == [k \in 1..(Len(seq) - 1) |-> IF k < i THEN seq[k] ELSE seq[k + 1]]

\* line 127: sort_values(by="time") with the default kind, quicksort, which
\* is not stable: rows of equal time come out in any order
RECURSIVE SortOrders(_)
SortOrders(rows) ==
    IF rows = <<>> THEN {<<>>}
    ELSE UNION {{<<rows[i]>> \o rest : rest \in SortOrders(RemoveAt(rows, i))} :
                i \in {j \in 1..Len(rows) :
                        \A k \in 1..Len(rows) : ~TimeLess(rows[k].time, rows[j].time)}}

RECURSIVE ffillStale(_, _, _)
ffillStale(rows, i, last) ==
    IF i > Len(rows) THEN rows
    ELSE LET fn == IF rows[i].filename = NoName THEN last ELSE rows[i].filename
         IN  ffillStale([rows EXCEPT ![i].filename = fn], i + 1,
                        IF last = NoName THEN fn ELSE last)

\* line 129: filename.ffill()
RECURSIVE ffill(_, _, _)
ffill(rows, i, last) ==
    IF i > Len(rows) THEN rows
    ELSE LET fn == IF rows[i].filename = NoName THEN last ELSE rows[i].filename
         IN  ffill([rows EXCEPT ![i].filename = fn], i + 1, fn)

\* line 130: dropna(subset=["filename"])
dropna(rows) == SelectSeq(rows, LAMBDA r : r.filename # NoName)

SwitchBeginOffByOne(ds, i) == ds[i - 1].endframe - 1

\* line 154: a switch row begins where the row above ends
SwitchBegin(ds, i) == ds[i - 1].endframe

\* lines 138-179: the frames of row i (1-based here)
ResolveFrames(ds, i, fc, fps) ==
    LET row == ds[i]
        total == FirstValue(framecount_values(fc, row.filename))
    IN  IF i = Len(ds)
        THEN [row EXCEPT !.endframe = total,
                         !.beginframe = IF row.beginframe # 0
                                        THEN ds[i - 1].endframe
                                        ELSE row.beginframe]
        ELSE IF IsNull(row.beginframe) /\ IsNull(row.endframe)
        THEN LET b == SwitchBegin(ds, i)
             IN  [row EXCEPT !.beginframe = b,
                             !.endframe = b + ElapsedFrames(row.time, ds[i + 1].time, fps)]
        ELSE IF ds[i + 1].beginframe = 0
        THEN [row EXCEPT !.endframe = total]
        ELSE IF i = 1 /\ IsNull(row.endframe)
        THEN [row EXCEPT !.endframe = ElapsedFrames(row.time, ds[i + 1].time, fps)]
        ELSE IF row.beginframe = 0 /\ IsNull(row.endframe)
        THEN [row EXCEPT !.endframe = ElapsedFrames(row.time, ds[i + 1].time, fps)]
        ELSE row

ResolveClassZero(ds, i, row) ==
    IF IsNull(row["class"]) THEN [row EXCEPT !["class"] = 0] ELSE row

\* lines 182-187: the class of row i
ResolveClass(ds, i, row) ==
    IF IsNull(row["class"]) /\ i = 1 THEN [row EXCEPT !["class"] = 0]
    ELSE IF IsNull(row["class"]) THEN [row EXCEPT !["class"] = ds[i - 1]["class"]]
    ELSE row

\* lines 137-187
RECURSIVE ResolveLoop(_, _, _, _)
ResolveLoop(ds, i, fc, fps) ==
    IF i > Len(ds) THEN ds
    ELSE ResolveLoop([ds EXCEPT ![i] = ResolveClass(ds, i, ResolveFrames(ds, i, fc, fps))],
                     i + 1, fc, fps)

\* lines 190-193: the columns cast to int and the time column dropped
DropTime(ds) ==
    [k \in 1..Len(ds) |-> Row(ds[k].filename, ds[k]["class"], ds[k].beginframe, ds[k].endframe)]

\* lines 129-193: what create_dataset makes of the sorted frame
resolve_sorted(srt, frame_counts, fps) ==
    DropTime(ResolveLoop(dropna(ffill(srt, 1, NoName)), 1, frame_counts, fps))

\* create_dataset(frame_counts, processed_counts, FPS, *args): the tables it
\* can return, one per outcome of the sort
create_dataset(frame_counts, processed_counts, fps, log_frames) ==
    {resolve_sorted(srt, frame_counts, fps) :
        srt \in SortOrders(processed_counts \o log_frames)}

(***************************************************************************)
(* add_buffering                                                           *)
(***************************************************************************)
\* lines 217-227: row i changes class
BufferClassChange(buffered, ds, i, frame_interval) ==
    [buffered EXCEPT ![i - 1].endframe = ds[i - 1].endframe - frame_interval,
                     ![i].beginframe = ds[i - 1].endframe + frame_interval]

\* lines 229-234: row i changes video
BufferVideoChange(buffered, ds, i, starting_frame, end_frame_buffer) ==
    [buffered EXCEPT ![i].beginframe = starting_frame,
                     ![i - 1].endframe = ds[i - 1].endframe - end_frame_buffer]

RECURSIVE BufferLoop(_, _, _, _, _, _)
BufferLoop(buffered, ds, i, starting_frame, end_frame_buffer, frame_interval) ==
    IF i > Len(ds) THEN buffered
    ELSE LET nxt ==
                 IF i = 1 THEN [buffered EXCEPT ![i].beginframe = starting_frame]
                 ELSE IF ds[i]["class"] # ds[i - 1]["class"]
                 THEN BufferClassChange(buffered, ds, i, frame_interval)
                 ELSE IF ds[i].filename # ds[i - 1].filename
                 THEN BufferVideoChange(buffered, ds, i, starting_frame, end_frame_buffer)
                 ELSE buffered
         IN  BufferLoop(nxt, ds, i + 1, starting_frame, end_frame_buffer, frame_interval)

add_buffering(ds, starting_frame, end_frame_buffer, frame_interval) ==
    BufferLoop(ds, ds, 1, starting_frame, end_frame_buffer, frame_interval)

(***************************************************************************)
(* Make_Dataset.py: the merge, the buffering, dataset.csv and its check    *)
(***************************************************************************)
\* lines 380-385
CreateDataset ==
    /\ pc = "merge"
    /\ \E srt \in SortOrders(process_frame_count(counts) \o list_of_logs(logs, 1)) :
           /\ sorted' = srt
           /\ dset' = resolve_sorted(srt, counts, args.fps)
    /\ pc' = "buffer"
    /\ UNCHANGED <<counts, logs, args, file, bak, dataset, faulty_rows, run, pre, ended,
                   video_files>>

\* lines 388-393
AddBuffering ==
    /\ pc = "buffer"
    /\ dset' = add_buffering(dset, args.starting_frame, args.end_frame_buffer,
                             args.frame_interval)
    /\ pc' = "write"
    /\ UNCHANGED <<counts, logs, args, file, bak, dataset, faulty_rows, run, pre, ended, sorted, video_files>>

\* line 395
WriteDataset ==
    /\ pc = "write"
    /\ file' = to_csv([rows |-> dset, floats |-> {}])
    /\ pre' = [file |-> file', bak |-> bak]
    /\ pc' = "check"
    /\ UNCHANGED <<counts, logs, args, dset, bak, dataset, faulty_rows, run, ended, sorted, video_files>>

FrameCounts == {10, 100000}

\* Count tables of up to MaxVideos videos, in time order
CountTables ==
    LET names == <<F1, F2, F3>>
        picks == {p \in SUBSET (1..3) : p # {} /\ Cardinality(p) <= MaxVideos}
        RECURSIVE Build(_, _, _)
        Build(p, k, f) ==
            IF k > 3 THEN <<>>
            ELSE IF k \in p
                 THEN <<[filename |-> names[k], framecount |-> f[k]]>> \o Build(p, k + 1, f)
                 ELSE Build(p, k + 1, f)
    IN  UNION {{Build(p, 1, f) : f \in [p -> FrameCounts]} : p \in picks}

LogFiles == UNION {[1..n -> FrameNames] : n \in 0..MaxEvents}

\* Two log files (classes 0 and 1) with at most MaxEvents events between them
LogSets == {l \in LogFiles \X LogFiles : Len(l[1]) + Len(l[2]) <= MaxEvents}

ArgSets ==
    [fps : {<<1, 1>>, <<5, 2>>}, starting_frame : {0, 1}, end_frame_buffer : {0, 3},
     frame_interval : {0, 2}]

Init ==
    /\ pc = "merge"
    /\ counts \in CountTables
    /\ logs \in LogSets
    /\ args \in ArgSets
    /\ dset = <<>>
    /\ file = Absent
    /\ bak = Absent
    /\ dataset = [rows |-> <<>>, floats |-> {}]
    /\ faulty_rows = <<>>
    /\ run = 1
    /\ pre = [file |-> file, bak |-> bak]
    /\ ended = <<>>
    /\ sorted = <<>>
    /\ video_files = <<>>

Next ==
    \/ CreateDataset
    \/ AddBuffering
    \/ WriteDataset
    \/ CheckScan
    \/ CheckBackup
    \/ CheckSave

Spec == Init /\ [][Next]_vars

(***************************************************************************)
(* Make_Dataset.py as a program: the statements of __main__ from the       *)
(* argument parsing to the log-file guards of lines 347-356.  No run gets  *)
(* past line 347, so the statements after it are no steps of this program. *)
(***************************************************************************)
\* file.endswith(".mp4")
IsMp4(fn) == fn \in {F3}

\* utils.get_video_info: the frame rate the probe reports for an mp4
ProbedFps == {<<25, 1>>, <<5, 2>>}

RECURSIVE Filenames_of(_, _)
Filenames_of(cnt, k) ==
    IF k > Len(cnt) THEN <<>> ELSE <<cnt[k].filename>> \o Filenames_of(cnt, k + 1)

\* os.listdir(args.in_path) filtered to videos: the counted videos in any
\* order, or no video at all (a wrong path)
Listings(cnt) ==
    LET names == Filenames_of(cnt, 1)
        n == Len(names)
        perms == {p \in [1..n -> 1..n] : \A a, b \in 1..n : a # b => p[a] # p[b]}
    IN  {<<>>} \cup {[k \in 1..n |-> names[p[k]]] : p \in perms}

\* Python values, as far as the guard of line 347 needs them
PyList(items) == [type |-> "list", val |-> items]
PyInt(n) == [type |-> "int", val |-> <<n>>]
PyBool(b) == [type |-> "bool", val |-> <<b>>]

\* a == b: values of different types are unequal
PyEq(a, b) == PyBool(a.type = b.type /\ a.val = b.val)

\* len(v) raises TypeError on a value that has no length
PyLenRaises(v) == v.type # "list"

\* lines 320-333
MainListVideos ==
    /\ pc = "main"
    /\ video_files' \in Listings(counts)
    /\ pc' = IF Len(video_files') = 0 THEN "aborted" ELSE "fps"
    /\ UNCHANGED <<counts, logs, args, dset, file, bak, dataset, faulty_rows, run, pre,
                   ended, sorted>>

\* lines 335-341: the frame rate is probed for an mp4, --fps otherwise
MainFps ==
    /\ pc = "fps"
    /\ IF IsMp4(video_files[1])
       THEN \E f \in ProbedFps : args' = [args EXCEPT !.fps = f]
       ELSE args' = args
    /\ pc' = "guard"
    /\ UNCHANGED <<counts, logs, dset, file, bak, dataset, faulty_rows, run, pre, ended,
                   sorted, video_files>>

\* lines 343-356: list_of_logs = [] and the two guards on its length
MainLogGuard ==
    /\ pc = "guard"
    /\ LET list == PyList(<<>>)
       IN  pc' = IF PyLenRaises(PyEq(list, PyInt(0))) THEN "aborted"
                 ELSE IF Len(list.val) = 0 THEN "aborted"
                 ELSE IF PyLenRaises(PyEq(list, PyInt(1))) THEN "aborted"
                 ELSE IF Len(list.val) = 1 THEN "aborted"
                 ELSE "merge"
    /\ UNCHANGED <<counts, logs, args, dset, file, bak, dataset, faulty_rows, run, pre,
                   ended, sorted, video_files>>

InitMain ==
    /\ pc = "main"
    /\ counts \in CountTables
    /\ logs \in LogSets
    /\ args \in ArgSets
    /\ dset = <<>>
    /\ file = Absent
    /\ bak = Absent
    /\ dataset = [rows |-> <<>>, floats |-> {}]
    /\ faulty_rows = <<>>
    /\ run = 1
    /\ pre = [file |-> file, bak |-> bak]
    /\ ended = <<>>
    /\ sorted = <<>>
    /\ video_files = <<>>

NextMain == MainListVideos \/ MainFps \/ MainLogGuard

SpecMain == InitMain /\ [][NextMain]_vars

(***************************************************************************)
(* Properties                                                              *)
(***************************************************************************)
Counted(fn) == framecount_values(counts, fn) # <<>>

TotalOf(fn) == FirstValue(framecount_values(counts, fn))

RowSound(row) ==
    /\ ~RowHasNull(row)
    /\ 0 <= row.beginframe
    /\ row.beginframe < row.endframe
    /\ row.endframe <= TotalOf(row.filename)

Merged == pc \in {"write", "check", "cleaned", "moved", "done", "error"}

\* C1: once check_dataset has finished without error, every row of the file at
\* the dataset path has no null field and 0 <= begin_frame < end_frame <=
\* total_frame_count of its video (also when a row needed only the clamp).
C1_PersistedRowsSound ==
    pc = "done" => \A i \in 1..Len(file.rows) : RowSound(file.rows[i])

\* C2: a complete row of the table with end_frame past its video's count and
\* 0 <= begin_frame < count is, after one finished run, in the file at the
\* dataset path with end_frame equal to the count.
C2_ClampedRowPersisted ==
    pc = "done" =>
        \A i \in 1..Len(pre.file.rows) :
            LET row == pre.file.rows[i]
            IN  (/\ ~RowHasNull(row)
                 /\ Counted(row.filename)
                 /\ row.endframe > TotalOf(row.filename)
                 /\ 0 <= row.beginframe
                 /\ row.beginframe < TotalOf(row.filename))
                => \E j \in 1..Len(file.rows) :
                       file.rows[j] = [row EXCEPT !.endframe = TotalOf(row.filename)]

\* C3: a second run of check_dataset after a run that did not raise leaves the
\* file at the dataset path as the first run left it: it does not raise,
\* finds no faulty row, and writes neither the file nor a backup.
C3_RepairIdempotent ==
    /\ \A k \in 2..Len(ended) : ended[k] = ended[1]
    /\ run >= 2 => /\ pc \in {"check", "done"}
                   /\ file = ended[1]
                   /\ bak = pre.bak
                   /\ (pc = "done" => faulty_rows = <<>>)

\* C3 witness: a second run has finished after a first run that removed rows
\* and kept others.
C3_Witness ==
    /\ pc = "done"
    /\ run = 2
    /\ Len(ended) = 2
    /\ bak.exists
    /\ Len(bak.rows) > Len(file.rows)
    /\ Len(file.rows) > 0

C5_MergeScenario ==
    (/\ Merged
     /\ Len(counts) = 1
     /\ Len(logs[1]) + Len(logs[2]) = 1
     /\ args.starting_frame = 0
     /\ args.frame_interval = 0
     /\ args.end_frame_buffer = 0)
    => LET fn == counts[1].filename
           N == counts[1].framecount
           c == IF Len(logs[1]) = 1 THEN 0 ELSE 1
           ev == IF Len(logs[1]) = 1 THEN logs[1][1] ELSE logs[2][1]
           D == LogTime(ev).s - VideoTime(fn).s
           Dfps == (D * args.fps[1]) \div args.fps[2]
       IN  (/\ VideoTime(fn).us = 0
            /\ D > 0
            /\ (D * args.fps[1]) % args.fps[2] = 0
            /\ Dfps < N)
           => dset = <<Row(fn, 0, 0, Dfps), Row(fn, c, Dfps, N)>>

\* C6: in the file left by the merge, the buffering and the repair, of two
\* adjacent rows of the same video the first ends no later than the second
\* begins.
C6_Monotonic ==
    pc = "done" =>
        \A i \in 1..(Len(file.rows) - 1) :
            file.rows[i].filename = file.rows[i + 1].filename
            => file.rows[i].endframe <= file.rows[i + 1].beginframe

\* C6 witness: the repair removed a row from between two rows of one video,
\* which are adjacent in the file it left.
C6_Witness ==
    /\ pc = "done"
    /\ \E k \in 2..(Len(dset) - 1) :
           /\ InList(k, faulty_rows)
           /\ ~InList(k - 1, faulty_rows)
           /\ ~InList(k + 1, faulty_rows)
           /\ dset[k - 1].filename = dset[k + 1].filename
    /\ \E i \in 1..(Len(file.rows) - 1) :
           file.rows[i].filename = file.rows[i + 1].filename

\* C7: check_dataset does not raise on a table whose rows all name a counted
\* video, whatever the other fields hold, and when it has finished no row
\* with a null field is left.
C7_NeverRaisesOnData ==
    (\A i \in 1..Len(pre.file.rows) : Counted(pre.file.rows[i].filename))
    => /\ pc # "error"
       /\ pc = "done" => \A i \in 1..Len(file.rows) : ~RowHasNull(file.rows[i])

\* C8: a table with a row whose filename the count table lacks makes the run
\* end in an error, the file unchanged and no backup written.
C8_MissingCrossRefFatal ==
    (\E i \in 1..Len(pre.file.rows) : ~Counted(pre.file.rows[i].filename))
    => /\ pc \in {"check", "error"}
       /\ file = pre.file
       /\ bak = pre.bak

\* C8 witness: the run raised on a row of an uncounted video after it had
\* marked an earlier row faulty.
C8_Witness ==
    /\ pc = "error"
    /\ Len(faulty_rows) > 0
    /\ \E i \in 1..Len(file.rows) :
           /\ ~Counted(file.rows[i].filename)
           /\ ~IsNull(file.rows[i].endframe)
           /\ \A k \in 1..(i - 1) : ~IsNull(file.rows[k].endframe)

\* C9: in the merger's table, between two consecutive rows of the same video
\* and of differing class the gap begin_frame[i] - end_frame[i-1] is
\* frame_interval.
C9_ClassChangeGap ==
    Merged =>
        \A i \in 2..Len(dset) :
            (/\ dset[i].filename = dset[i - 1].filename
             /\ dset[i]["class"] # dset[i - 1]["class"])
            => dset[i].beginframe - dset[i - 1].endframe = args.frame_interval

\* C10: the last row of the merger's table ends at its video's frame count
\* minus end_frame_buffer.
C10_LastRowEnd ==
    (Merged /\ Len(dset) > 0) =>
        dset[Len(dset)].endframe
            = TotalOf(dset[Len(dset)].filename) - args.end_frame_buffer

\* Rows of the sorted frame: a video-anchor row carries its filename, a
\* class-anchor row does not yet.
IsVideoAnchor(i) == sorted[i].filename # NoName

SameTime(a, b) == ~TimeLess(a, b) /\ ~TimeLess(b, a)

VideosUpTo(i) == {j \in 1..i : IsVideoAnchor(j)}

LastVideo(i) == CHOOSE j \in VideosUpTo(i) : \A k \in VideosUpTo(i) : k <= j

FirstVideo == CHOOSE j \in VideosUpTo(Len(sorted)) : \A k \in VideosUpTo(Len(sorted)) : j <= k

C13_SpacingRulesExclusive ==
    pc = "buffer" =>
        \A i \in 2..Len(dset) :
            ~(/\ dset[i]["class"] # dset[i - 1]["class"]
              /\ dset[i].filename # dset[i - 1].filename)

\* C13 witness: the table holds a video change that follows a class change.
C13_Witness ==
    /\ pc = "buffer"
    /\ \E i \in 3..Len(dset) :
           /\ dset[i].filename # dset[i - 1].filename
           /\ dset[i - 1]["class"] # dset[i - 2]["class"]
           /\ dset[i - 1]["class"] # 0

\* The wall-clock time from a to b in half seconds (every timestamp of the
\* model is a multiple of half a second).
HalfSeconds(a, b) == (b.s - a.s) * 2 + (b.us - a.us) \div 500000

\* C14: a class-anchor row that is not the last row spans round(E * fps)
\* frames in create_dataset's table, E the full wall-clock time in seconds to
\* the next row (whole days and fractions of a second included).
C14_ElapsedFrames ==
    (pc = "buffer" /\ VideosUpTo(Len(sorted)) # {}) =>
        \A k \in 1..(Len(dset) - 1) :
            LET i == FirstVideo + k - 1
            IN  ~IsVideoAnchor(i) =>
                    dset[k].endframe - dset[k].beginframe
                        = Round(HalfSeconds(sorted[i].time, sorted[i + 1].time) * args.fps[1],
                                2 * args.fps[2])

C16_MainReachesMerge ==
    (Len(video_files) >= 1 /\ Len(logs) >= 2) => pc # "aborted"

====
